---------------------------- MODULE Spec2Model ----------------------------
(***************************************************************************)
(* poliastro.twobody: the State class (from_vectors, from_elements,        *)
(* elements, rv, propagate) and the functions coe2rv, rv2coe and kepler.   *)
(*                                                                         *)
(* Numbers.  The arithmetic of the source is floating point.  It is done   *)
(* here on a grid of inputs on which every product, quotient, square root  *)
(* and inverse trigonometric function of the source is exact:              *)
(* circular orbits (ecc = 0) whose vectors lie on the coordinate axes.  A  *)
(* float is a record [s, m] of a sign (1 or -1) and an integer magnitude,  *)
(* so that -0.0 is F(-1, 0) and differs from 0.0: the angles rv2coe gives  *)
(* for equatorial and circular orbits are arctan2 of zeros and depend on   *)
(* their signs.  Vectors and the numbers inside coe2rv and rv2coe are      *)
(* floats; the magnitudes of scalar Quantities (k, times, elements), which *)
(* are never -0.0, are written as integers.                                *)
(*                                                                         *)
(* Quantities.  An astropy Quantity is a record [value, unit].  A vector   *)
(* Quantity has a 3-tuple as value.  The magnitude of an angle in "rad" is *)
(* stored in units of pi/2 (value 2 with unit "rad" is pi radians), the    *)
(* magnitude of an angle in "deg" in degrees.  Lengths are "km" and "dam"  *)
(* (1 km = 100 dam, so that sqrt(km/dam) = 10 is exact).                   *)
(*                                                                         *)
(* Python objects.  None and the empty tuple are both falsy and are both   *)
(* written << >>.  A reference to a State instance is its index in heap.   *)
(* A Time is the integer number of seconds since J2000.                    *)
(***************************************************************************)
EXTENDS Integers, Sequences, FiniteSets, TLC

VARIABLES
    heap,          \* the State instances constructed so far, in order
    last,          \* the outcome of the last call: what it returned or raised
    origin,        \* per instance: how it was constructed
    rv2coe_calls,  \* per instance: calls of rv2coe made by its elements property
    cache_writes,  \* per instance: assignments to _elements after __init__
    pc,            \* per thread: position inside the elements property
    target,        \* per thread: the instance whose elements it is reading
    local,         \* per thread: the value it is about to store and return
    got            \* per thread: what its last elements read returned

vars == <<heap, last, origin, rv2coe_calls, cache_writes, pc, target, local, got>>

(* Bounds of the model. *)
MaxStates == 3
NThreads == 2

None == << >>

Q(value, unit) == [value |-> value, unit |-> unit]

-----------------------------------------------------------------------------
(* astropy.units as far as the source uses it *)

PhysicalType(unit) ==
    CASE unit \in {"km", "dam"} -> "length"
      [] unit \in {"km / s", "km(3/2) / (dam(1/2) s)"} -> "speed"
      [] unit \in {"km3 / s2", "dam3 / s2"} -> "length3 / time2"
      [] unit \in {"rad", "deg"} -> "angle"
      [] unit \in {"s", "min"} -> "time"
      [] unit = "" -> "dimensionless"

\* <<n, d>>: one `from` is n/d `to`
Factor(from, to) ==
    CASE from = to -> <<1, 1>>
      [] from = "km" /\ to = "dam" -> <<100, 1>>
      [] from = "dam" /\ to = "km" -> <<1, 100>>
      [] from = "km(3/2) / (dam(1/2) s)" /\ to = "km / s" -> <<10, 1>>
      [] from = "km / s" /\ to = "km(3/2) / (dam(1/2) s)" -> <<1, 10>>
      [] from = "dam3 / s2" /\ to = "km3 / s2" -> <<1, 1000000>>
      [] from = "km3 / s2" /\ to = "dam3 / s2" -> <<1000000, 1>>
      [] from = "rad" /\ to = "deg" -> <<90, 1>>
      [] from = "deg" /\ to = "rad" -> <<1, 90>>
      [] from = "min" /\ to = "s" -> <<60, 1>>
      [] from = "s" /\ to = "min" -> <<1, 60>>

Scale(x, f) == (x * f[1]) \div f[2]

\* Quantity.to(unit) of a scalar and of a vector
to(q, unit) == Q(Scale(q.value, Factor(q.unit, unit)), unit)
to_vec(q, unit) ==
    Q([i \in 1..Len(q.value) |->
          [s |-> q.value[i].s, m |-> Scale(q.value[i].m, Factor(q.unit, unit))]],
      unit)

\* unit of the quotient and of the square root of a Quantity
DivUnit(u1, u2) ==
    CASE u1 = "km3 / s2" /\ u2 = "km" -> "km2 / s2"
      [] u1 = "km3 / s2" /\ u2 = "dam" -> "km3 / (dam s2)"
SqrtUnit(un) ==
    CASE un = "km2 / s2" -> "km / s"
      [] un = "km3 / (dam s2)" -> "km(3/2) / (dam(1/2) s)"

\* poliastro.util.check_units: every quantity has the physical type of its unit
check_units(quantities, units) ==
    \A i \in 1..(IF Len(quantities) < Len(units) THEN Len(quantities) ELSE Len(units)) :
        PhysicalType(quantities[i].unit) = PhysicalType(units[i])

-----------------------------------------------------------------------------
(* IEEE arithmetic and numpy as far as the source uses them *)

F(s, m) == [s |-> s, m |-> m]
\* the float of an integer, and the integer of a float
fl(n) == IF n < 0 THEN F(-1, -n) ELSE F(1, n)
val(x) == x.s * x.m
vec(x) == [i \in 1..Len(x) |-> fl(x[i])]

fneg(x) == F(-x.s, x.m)
fmul(x, y) == F(x.s * y.s, x.m * y.m)
fdiv(x, y) == F(x.s * y.s, x.m \div y.m)
\* a zero sum is -0.0 only when both terms are -0.0
fadd(x, y) ==
    IF val(x) + val(y) # 0 THEN fl(val(x) + val(y))
    ELSE IF x.m = 0 /\ y.m = 0 /\ x.s = -1 /\ y.s = -1 THEN F(-1, 0)
    ELSE F(1, 0)
fsub(x, y) == fadd(x, fneg(y))
fsqrt(x) == F(x.s, CHOOSE n \in 0..x.m : n * n = x.m)
\* np.mod(x, 4): the result has the sign of the divisor
fmod4(x) == fl(val(x) % 4)

\* ndarray.dot: the products are added to an accumulator that starts at 0.0
dot(x, y) ==
    fadd(fadd(fadd(F(1, 0), fmul(x[1], y[1])), fmul(x[2], y[2])), fmul(x[3], y[3]))
\* np.cross: each component is one product minus another
cross(x, y) == << fsub(fmul(x[2], y[3]), fmul(x[3], y[2])),
                  fsub(fmul(x[3], y[1]), fmul(x[1], y[3])),
                  fsub(fmul(x[1], y[2]), fmul(x[2], y[1])) >>
sqrt(x) == fsqrt(x)
norm(x) == sqrt(dot(x, x))
smul(c, x) == << fmul(c, x[1]), fmul(c, x[2]), fmul(c, x[3]) >>
sdiv(x, c) == << fdiv(x[1], c), fdiv(x[2], c), fdiv(x[3], c) >>
vsub(x, y) == << fsub(x[1], y[1]), fsub(x[2], y[2]), fsub(x[3], y[3]) >>

\* cosine and sine of q quarter turns
cosq(q) == CASE q % 4 = 0 -> 1 [] q % 4 = 1 -> 0 [] q % 4 = 2 -> -1 [] q % 4 = 3 -> 0
sinq(q) == CASE q % 4 = 0 -> 0 [] q % 4 = 1 -> 1 [] q % 4 = 2 -> 0 [] q % 4 = 3 -> -1
\* np.cos, np.sin of an angle Quantity with a float magnitude; sin(-0.0) is
\* -0.0.  Only for the angle 0 are the floats of the source these numbers:
\* the float nearest to pi/2 or pi has a cosine or sine near 0, not 0.
Quarters(angle) ==
    IF angle.unit = "deg" THEN val(angle.value) \div 90 ELSE val(angle.value)
cos(angle) == fl(cosq(Quarters(angle)))
sin(angle) == IF angle.value.m = 0 THEN angle.value ELSE fl(sinq(Quarters(angle)))
\* np.arccos and np.arctan2, results in units of pi/2
arccos(x) == CASE val(x) = 1 -> fl(0) [] val(x) = 0 -> fl(1) [] val(x) = -1 -> fl(2)
arctan2(y, x) ==
    CASE y.m = 0 /\ (val(x) > 0 \/ x = F(1, 0)) -> y
      [] y.m = 0 /\ (val(x) < 0 \/ x = F(-1, 0)) -> F(y.s, 2)
      [] val(y) > 0 /\ x.m = 0 -> fl(1)
      [] val(y) < 0 /\ x.m = 0 -> fl(-1)

\* poliastro.util.transform: the standard right-handed rotation matrix of
\* `axis` by `angle` times `vector`.  The elements given to from_elements
\* below have angles of 0, for which the sense of the rotation makes no
\* difference to the result.
transform(vector, angle, axis) ==
    LET c == cos(angle)
        s == sin(angle)
        o == fl(0)
        l == fl(1)
        x == vector.value
    IN  Q(CASE axis = "z" -> << dot(<< c, fneg(s), o >>, x), dot(<< s, c, o >>, x),
                                dot(<< o, o, l >>, x) >>
            [] axis = "x" -> << dot(<< l, o, o >>, x), dot(<< o, c, fneg(s) >>, x),
                                dot(<< o, s, c >>, x) >>
            [] axis = "y" -> << dot(<< c, o, s >>, x), dot(<< o, l, o >>, x),
                                dot(<< fneg(s), o, c >>, x) >>,
          vector.unit)

\* an angle Quantity as np.cos and transform take it, and its negative
angle_(q) == Q(fl(q.value), q.unit)
neg(angle) == Q(fneg(angle.value), angle.unit)


-----------------------------------------------------------------------------
(* Outcomes of calls.  A function outcome is [exc, ret, log]; a method      *)
(* outcome is [heap, exc, ref, value, log]: the heap after the call, the    *)
(* exception raised (NoExc when it returned), the State returned (0 when    *)
(* none), the tuple returned (None when none) and the calls it made.        *)

NoExc == [type |-> "", msg |-> << >>]
Exc(type, msg) == [type |-> type, msg |-> msg]
Ev(fn, args) == [fn |-> fn, args |-> args]
Raise(h, e, log) == [heap |-> h, exc |-> e, ref |-> 0, value |-> None, log |-> log]
Return(h, ref, value, log) ==
    [heap |-> h, exc |-> NoExc, ref |-> ref, value |-> value, log |-> log]

J2000 == 0

\* Time + Quantity
TimeAdd(epoch, dt) == epoch + to(dt, "s").value

-----------------------------------------------------------------------------
(* coe2rv, rv2coe, kepler *)

\* k, a, ecc and the angles are Quantities with integer magnitudes; the
\* vectors returned are vectors of floats
coe2rv(k, a, ecc, inc, raan, argp, nu) ==
    LET e_ == fl(ecc.value)
        p == Q(fmul(fl(a.value), fsub(fl(1), fmul(e_, e_))), a.unit)
        cnu == cos(angle_(nu))
        snu == sin(angle_(nu))
        r_pqw == Q(smul(p.value, << fdiv(cnu, fadd(fl(1), fmul(e_, cnu))),
                                    fdiv(snu, fadd(fl(1), fmul(e_, cnu))),
                                    fl(0) >>), p.unit)
        v_pqw == Q(smul(sqrt(fdiv(fl(k.value), p.value)),
                        << fneg(snu), fadd(e_, cnu), fl(0) >>),
                   SqrtUnit(DivUnit(k.unit, p.unit)))
        r_1 == transform(r_pqw, neg(angle_(argp)), "z")
        r_2 == transform(r_1, neg(angle_(inc)), "x")
        r_ijk == transform(r_2, neg(angle_(raan)), "z")
        v_1 == transform(v_pqw, neg(angle_(argp)), "z")
        v_2 == transform(v_1, neg(angle_(inc)), "x")
        v_ijk == transform(v_2, neg(angle_(raan)), "z")
    IN  << r_ijk, v_ijk >>

\* k is a float and r, v are vectors of floats; six floats are returned, the
\* angles in units of pi/2, so that 2 pi is 4.  h, n and e are computed once
\* and handed on, as the assignments of lines 161-163 do.
rv2coe(k, r, v) ==
    LET given_hne(h, n, e) ==
            LET ecc == norm(e)
                p == fdiv(dot(h, h), k)
                a == fdiv(p, fsub(fl(1), fmul(ecc, ecc)))
                inc == arccos(fdiv(h[3], norm(h)))
                raan == fmod4(arctan2(n[2], n[1]))
                argp == fmod4(arctan2(fdiv(dot(h, cross(n, e)), norm(h)),
                                      dot(e, n)))
                nu == fmod4(arctan2(fdiv(dot(h, cross(e, r)), norm(h)), dot(r, e)))
            IN  << a, ecc, inc, raan, argp, nu >>
        given_h(h) ==
            given_hne(h,
                    sdiv(cross(vec(<<0, 0, 1>>), h), norm(h)),
                    sdiv(vsub(smul(fsub(dot(v, v), fdiv(k, norm(r))), r),
                              smul(dot(r, v), v)), k))
    IN  given_h(cross(r, v))

\* bytes.strip(): leading and trailing ASCII whitespace removed (space, tab,
\* newline, carriage return, form feed and vertical tab, written "\\x0b")
Whitespace == { " ", "\t", "\n", "\r", "\f", "\\x0b" }
RECURSIVE lstrip(_)
lstrip(s) == IF s # << >> /\ Head(s) \in Whitespace THEN lstrip(Tail(s)) ELSE s
RECURSIVE rstrip(_)
rstrip(s) ==
    IF s # << >> /\ s[Len(s)] \in Whitespace
    THEN rstrip(SubSeq(s, 1, Len(s) - 1)) ELSE s
strip(s) == rstrip(lstrip(s))

ok == << "o", "k" >>

\* _ast2body.kepler, the compiled solver, when it reports `status` (a
\* blank-padded string).  On the grid the body moves a quarter of its
\* circular orbit, forward for a positive time of flight and backward for a
\* negative one; with a status other than ok the vectors are left zero.
ast2body_kepler(r0, v0, tof, k, status) ==
    LET ahead == << smul(norm(r0), sdiv(v0, norm(v0))),
                    smul(fneg(norm(v0)), sdiv(r0, norm(r0))) >>
        behind == << smul(fneg(norm(r0)), sdiv(v0, norm(v0))),
                     smul(norm(v0), sdiv(r0, norm(r0))) >>
        moved == IF tof > 0 THEN ahead ELSE IF tof < 0 THEN behind ELSE << r0, v0 >>
    IN  IF strip(status) = ok
        THEN moved \o << status >>
        ELSE << vec(<<0, 0, 0>>), vec(<<0, 0, 0>>), status >>

\* kepler returning the solver's vectors whatever status it reports
kepler_silent(k, r0, v0, tof, status) ==
    LET checked(sol) ==
            [exc |-> NoExc, ret |-> << sol[1], sol[2] >>,
             log |-> << Ev("_ast2body.kepler", << >>) >>]
    IN  checked(ast2body_kepler(r0, v0, tof, k, status))

\* kepler calling the solver a second time when the first call fails
kepler_retry(k, r0, v0, tof, status) ==
    LET checked(sol) ==
            LET error == strip(sol[3])
                call == Ev("_ast2body.kepler", << >>)
            IN  IF error # ok
                THEN [exc |-> Exc("RuntimeError",
                                  << "There was an error: " >> \o error),
                      ret |-> None, log |-> << call, call >>]
                ELSE [exc |-> NoExc, ret |-> << sol[1], sol[2] >>,
                      log |-> << call >>]
    IN  checked(ast2body_kepler(r0, v0, tof, k, status))

\* `status` is what the solver reports in this call.  The conversions of
\* lines 199-201 to float leave the numbers of the grid as they are.
kepler(k, r0, v0, tof, status) ==
    IF Len(r0) # 3 \/ Len(v0) # 3
    THEN [exc |-> Exc("AssertionError", << >>), ret |-> None, log |-> << >>]
    ELSE LET checked(sol) ==
                 LET r == sol[1]
                     v == sol[2]
                     error == strip(sol[3])
                     call == Ev("_ast2body.kepler", << >>)
                 IN  IF error # ok
                     THEN [exc |-> Exc("RuntimeError",
                                       << "There was an error: " >> \o error),
                           ret |-> None, log |-> << call >>]
                     ELSE [exc |-> NoExc, ret |-> << r, v >>, log |-> << call >>]
         IN  checked(ast2body_kepler(r0, v0, tof, k, status))

-----------------------------------------------------------------------------
(* class State *)

State_init(attractor, r, v, epoch) ==
    [attractor |-> attractor, epoch |-> epoch, r |-> r, v |-> v, _elements |-> None]

from_vectors(h, attractor, r, v, epoch) ==
    LET chk == Ev("check_units", << r, v >>)
    IN  IF ~ check_units(<< r, v >>, << "km", "km / s" >>)
        THEN Raise(h, Exc("UnitsError", << "Units must be consistent" >>), << chk >>)
        ELSE Return(Append(h, State_init(attractor, r, v, epoch)), Len(h) + 1, None,
                    << chk, Ev("State", << Len(h) + 1 >>) >>)

\* from_elements checking the units before the number of elements
from_elements_units_first(h, attractor, elems, epoch) ==
    LET chk == Ev("check_units", elems)
    IN  IF ~ check_units(elems, << "km", "", "rad", "rad", "rad", "rad" >>)
        THEN Raise(h, Exc("UnitsError", << "Units must be consistent" >>), << chk >>)
        ELSE IF Len(elems) # 6
        THEN Raise(h, Exc("ValueError", << "Incorrect number of parameters" >>), << chk >>)
        ELSE LET k == to(attractor.k, "km3 / s2")
                 rv_ == coe2rv(k, elems[1], elems[2], elems[3], elems[4], elems[5],
                               elems[6])
                 ss == State_init(attractor, rv_[1], rv_[2], epoch)
             IN  Return(Append(h, [ss EXCEPT !._elements = elems]), Len(h) + 1, None,
                        << chk, Ev("to", << attractor.k >>),
                           Ev("coe2rv", << k >> \o elems),
                           Ev("State", << Len(h) + 1 >>),
                           Ev("setattr", << Len(h) + 1 >>) >>)

\* from_elements caching the elements converted to km and degrees
from_elements_converted(h, attractor, elems, epoch) ==
    IF Len(elems) # 6
    THEN Raise(h, Exc("ValueError", << "Incorrect number of parameters" >>), << >>)
    ELSE LET chk == Ev("check_units", elems)
         IN
         IF ~ check_units(elems, << "km", "", "rad", "rad", "rad", "rad" >>)
         THEN Raise(h, Exc("UnitsError", << "Units must be consistent" >>), << chk >>)
         ELSE LET k == to(attractor.k, "km3 / s2")
                  rv_ == coe2rv(k, elems[1], elems[2], elems[3], elems[4], elems[5],
                                elems[6])
                  ss == State_init(attractor, rv_[1], rv_[2], epoch)
                  conv == << to(elems[1], "km"), elems[2], to(elems[3], "deg"),
                             to(elems[4], "deg"), to(elems[5], "deg"),
                             to(elems[6], "deg") >>
              IN  Return(Append(h, [ss EXCEPT !._elements = conv]), Len(h) + 1, None,
                         << chk, Ev("to", << attractor.k >>),
                            Ev("coe2rv", << k >> \o elems),
                            Ev("State", << Len(h) + 1 >>),
                            Ev("setattr", << Len(h) + 1 >>) >>)

from_elements(h, attractor, elems, epoch) ==
    IF Len(elems) # 6
    THEN Raise(h, Exc("ValueError", << "Incorrect number of parameters" >>), << >>)
    ELSE LET chk == Ev("check_units", elems)
         IN
         IF ~ check_units(elems, << "km", "", "rad", "rad", "rad", "rad" >>)
         THEN Raise(h, Exc("UnitsError", << "Units must be consistent" >>), << chk >>)
         ELSE LET k == to(attractor.k, "km3 / s2")
                  rv_ == coe2rv(k, elems[1], elems[2], elems[3], elems[4], elems[5],
                                elems[6])
                  ss == State_init(attractor, rv_[1], rv_[2], epoch)
              IN  Return(Append(h, [ss EXCEPT !._elements = elems]), Len(h) + 1, None,
                         << chk, Ev("to", << attractor.k >>),
                            Ev("coe2rv", << k >> \o elems),
                            Ev("State", << Len(h) + 1 >>),
                            Ev("setattr", << Len(h) + 1 >>) >>)

\* lines 82-89: the tuple the elements property computes for an instance
elements_compute(self) ==
    LET k == to(self.attractor.k, "km3 / s2").value
        r == to_vec(self.r, "km").value
        v == to_vec(self.v, "km / s").value
        assigned(coe) ==
            << Q(val(coe[1]), "km"), Q(val(coe[2]), ""),
               to(Q(val(coe[3]), "rad"), "deg"), to(Q(val(coe[4]), "rad"), "deg"),
               to(Q(val(coe[5]), "rad"), "deg"), to(Q(val(coe[6]), "rad"), "deg") >>
    IN  assigned(rv2coe(fl(k), r, v))

\* truth value of a tuple or None
truthy(x) == x # None /\ Len(x) > 0

\* the elements property without the test of the cache
elements_recompute(h, self) ==
    LET stored(h2) ==
            Return(h2, 0, h2[self]._elements,
                   << Ev("rv2coe", << self >>), Ev("setattr", << self >>) >>)
    IN  stored([h EXCEPT ![self]._elements = elements_compute(h[self])])

elements(h, self) ==
    IF truthy(h[self]._elements)
    THEN Return(h, 0, h[self]._elements, << >>)
    ELSE LET stored(h2) ==
                 Return(h2, 0, h2[self]._elements,
                        << Ev("rv2coe", << self >>), Ev("setattr", << self >>) >>)
         IN  stored([h EXCEPT ![self]._elements = elements_compute(h[self])])

rv(h, self) == Return(h, 0, << h[self].r, h[self].v >>, << >>)

\* propagate moving the State it is called on and returning it
propagate_inplace(h, self, time_of_flight, status) ==
    LET call == Ev("kepler", << self >>)
        built(kr) ==
            IF kr.exc # NoExc
            THEN Raise(h, kr.exc, << call >> \o kr.log)
            ELSE Return([h EXCEPT ![self].r = Q(kr.ret[1], "km"),
                                  ![self].v = Q(kr.ret[2], "km / s"),
                                  ![self].epoch = TimeAdd(@, time_of_flight)],
                        self, None, << call >> \o kr.log)
    IN  built(kepler(to(h[self].attractor.k, "km3 / s2").value,
                     to_vec(h[self].r, "km").value,
                     to_vec(h[self].v, "km / s").value,
                     to(time_of_flight, "s").value, status))

\* propagate handing the cached elements of the source to the new State
propagate_keepcache(h, self, time_of_flight, status) ==
    LET call == Ev("kepler", << self >>)
        built(kr) ==
            IF kr.exc # NoExc
            THEN Raise(h, kr.exc, << call >> \o kr.log)
            ELSE LET fv == from_vectors(h, h[self].attractor, Q(kr.ret[1], "km"),
                                        Q(kr.ret[2], "km / s"),
                                        TimeAdd(h[self].epoch, time_of_flight))
                 IN  [fv EXCEPT !.log = << call >> \o kr.log \o fv.log,
                                !.heap = [fv.heap EXCEPT
                                             ![fv.ref]._elements = h[self]._elements]]
    IN  built(kepler(to(h[self].attractor.k, "km3 / s2").value,
                     to_vec(h[self].r, "km").value,
                     to_vec(h[self].v, "km / s").value,
                     to(time_of_flight, "s").value, status))

\* propagate adding the bare magnitude of the time of flight to the epoch
propagate_raw_tof(h, self, time_of_flight, status) ==
    LET call == Ev("kepler", << self >>)
        built(kr) ==
            IF kr.exc # NoExc
            THEN Raise(h, kr.exc, << call >> \o kr.log)
            ELSE LET fv == from_vectors(h, h[self].attractor, Q(kr.ret[1], "km"),
                                        Q(kr.ret[2], "km / s"),
                                        h[self].epoch + time_of_flight.value)
                 IN  [fv EXCEPT !.log = << call >> \o kr.log \o fv.log]
    IN  built(kepler(to(h[self].attractor.k, "km3 / s2").value,
                     to_vec(h[self].r, "km").value,
                     to_vec(h[self].v, "km / s").value,
                     to(time_of_flight, "s").value, status))

propagate(h, self, time_of_flight, status) ==
    LET call == Ev("kepler", << self >>)
        built(kr) ==
            IF kr.exc # NoExc
            THEN Raise(h, kr.exc, << call >> \o kr.log)
            ELSE LET fv == from_vectors(h, h[self].attractor, Q(kr.ret[1], "km"),
                                        Q(kr.ret[2], "km / s"),
                                        TimeAdd(h[self].epoch, time_of_flight))
                 IN  [fv EXCEPT !.log = << call >> \o kr.log \o fv.log]
    IN  built(kepler(to(h[self].attractor.k, "km3 / s2").value,
                     to_vec(h[self].r, "km").value,
                     to_vec(h[self].v, "km / s").value,
                     to(time_of_flight, "s").value, status))

-----------------------------------------------------------------------------
(* The inputs the calls are made with *)

BodyA == [name |-> "A", k |-> Q(1600, "km3 / s2")]
BodyB == [name |-> "B", k |-> Q(400000000, "dam3 / s2")]

\* <<attractor, r, v, epoch>>: a retrograde equatorial circular orbit, whose
\* node vector is [-0.0, 0.0, 0.0], and a position given in seconds
VectorInputs ==
    { << BodyA, Q(vec(<<0, 100, 0>>), "dam"), Q(vec(<<40, 0, 0>>), "km / s"),
         J2000 + 100 >>,
      << BodyA, Q(vec(<<0, 100, 0>>), "s"), Q(vec(<<40, 0, 0>>), "km / s"), J2000 >> }

\* an equatorial circular orbit; np.cos and np.sin are exact for its angles
SixElements == << Q(400, "dam"), Q(0, ""), Q(0, "deg"), Q(0, "rad"), Q(0, "rad"),
                  Q(0, "deg") >>
\* <<attractor, elements, epoch>>: six elements, five, seven, five with a
\* semi-major axis in seconds, six with a semi-major axis in seconds
ElementInputs ==
    { << BodyB, SixElements, J2000 >>,
      << BodyB, SubSeq(SixElements, 1, 5), J2000 >>,
      << BodyB, SixElements \o << Q(0, "rad") >>, J2000 >>,
      << BodyB, [SubSeq(SixElements, 1, 5) EXCEPT ![1] = Q(400, "s")], J2000 >>,
      << BodyB, [SixElements EXCEPT ![1] = Q(400, "s")], J2000 >> }

TimesOfFlight == { Q(1, "min"), Q(-30, "s") }

\* what the solver may report: blank-padded, as a Fortran string is
Statuses == { << "o", "k", " " >>, << "n", "c", " " >> }

Threads == 1..NThreads

-----------------------------------------------------------------------------
(* State machine *)

Origin(how, parent, tof, elems) ==
    [how |-> how, parent |-> parent, tof |-> tof, elements |-> elems]

Count(log, fn) == Cardinality({ j \in 1..Len(log) : log[j].fn = fn })

\* a call: what was called, on which instance, with which elements, the
\* status the solver reported in it, and its outcome
NoCall == [op |-> "", self |-> 0, elements |-> None, status |-> None,
           exc |-> NoExc, ref |-> 0, value |-> None, log |-> << >>]

Init ==
    /\ heap = << >>
    /\ last = NoCall
    /\ origin = << >>
    /\ rv2coe_calls = << >>
    /\ cache_writes = << >>
    /\ pc = [t \in Threads |-> "idle"]
    /\ target = [t \in Threads |-> 0]
    /\ local = [t \in Threads |-> None]
    /\ got = [t \in Threads |-> None]

\* the effect of a call with outcome o on the state; org is the origin of the
\* instance it constructed, if it constructed one
Commit(call, o, org) ==
    /\ Len(o.heap) <= MaxStates
    /\ heap' = o.heap
    /\ last' = [call EXCEPT !.exc = o.exc, !.ref = o.ref, !.value = o.value,
                            !.log = o.log]
    /\ IF Len(o.heap) > Len(heap)
       THEN /\ origin' = Append(origin, org)
            /\ rv2coe_calls' = Append(rv2coe_calls, Count(o.log, "rv2coe"))
            /\ cache_writes' = Append(cache_writes, Count(o.log, "setattr"))
       ELSE UNCHANGED << origin, rv2coe_calls, cache_writes >>
    /\ UNCHANGED << pc, target, local, got >>

FromVectors ==
    \E inp \in VectorInputs :
        Commit([NoCall EXCEPT !.op = "from_vectors"],
               from_vectors(heap, inp[1], inp[2], inp[3], inp[4]),
               Origin("from_vectors", 0, Q(0, "s"), None))

FromElements ==
    \E inp \in ElementInputs :
        Commit([NoCall EXCEPT !.op = "from_elements", !.elements = inp[2]],
               from_elements(heap, inp[1], inp[2], inp[3]),
               Origin("from_elements", 0, Q(0, "s"), inp[2]))

ReadElements ==
    \E i \in 1..Len(heap) :
        \E o \in { elements(heap, i) } :
            /\ heap' = o.heap
            /\ last' = [NoCall EXCEPT !.op = "elements", !.self = i, !.exc = o.exc,
                                      !.value = o.value, !.log = o.log]
            /\ rv2coe_calls' = [rv2coe_calls EXCEPT ![i] = @ + Count(o.log, "rv2coe")]
            /\ cache_writes' = [cache_writes EXCEPT ![i] = @ + Count(o.log, "setattr")]
            /\ UNCHANGED << origin, pc, target, local, got >>

Rv ==
    \E i \in 1..Len(heap) :
        Commit([NoCall EXCEPT !.op = "rv", !.self = i], rv(heap, i),
               Origin("", 0, Q(0, "s"), None))

Propagate ==
    \E i \in 1..Len(heap), tof \in TimesOfFlight, status \in Statuses :
        \E o \in { propagate(heap, i, tof, status) } :
            Commit([NoCall EXCEPT !.op = "propagate", !.self = i,
                       !.status = IF Count(o.log, "_ast2body.kepler") > 0
                                  THEN status ELSE None],
                   o, Origin("propagate", i, tof, None))

Next == FromVectors \/ FromElements \/ ReadElements \/ Rv \/ Propagate

Spec == Init /\ [][Next]_vars

-----------------------------------------------------------------------------
(* The elements property read by concurrent threads: one step per line of   *)
(* the property, the interpreter being free to switch threads between them. *)

\* line 79: if self._elements:
ElementsTest(t) ==
    \E i \in 1..Len(heap) :
        /\ pc[t] = "idle"
        /\ target' = [target EXCEPT ![t] = i]
        /\ got' = [got EXCEPT ![t] = None]
        /\ pc' = [pc EXCEPT ![t] = IF truthy(heap[i]._elements) THEN "l80" ELSE "l82"]
        /\ UNCHANGED << heap, last, origin, rv2coe_calls, cache_writes, local >>

Returned(t) ==
    /\ got' = [got EXCEPT ![t] = heap[target[t]]._elements]
    /\ pc' = [pc EXCEPT ![t] = "idle"]
    /\ UNCHANGED << heap, last, origin, rv2coe_calls, cache_writes, target, local >>

\* line 80: return self._elements
ElementsCached(t) == pc[t] = "l80" /\ Returned(t)

\* lines 82-85, and the tuple of lines 86-89
ElementsCompute(t) ==
    /\ pc[t] = "l82"
    /\ local' = [local EXCEPT ![t] = elements_compute(heap[target[t]])]
    /\ rv2coe_calls' = [rv2coe_calls EXCEPT ![target[t]] = @ + 1]
    /\ pc' = [pc EXCEPT ![t] = "l86"]
    /\ UNCHANGED << heap, last, origin, cache_writes, target, got >>

\* line 86: self._elements = ...
ElementsStore(t) ==
    /\ pc[t] = "l86"
    /\ heap' = [heap EXCEPT ![target[t]]._elements = local[t]]
    /\ cache_writes' = [cache_writes EXCEPT ![target[t]] = @ + 1]
    /\ local' = [local EXCEPT ![t] = None]
    /\ pc' = [pc EXCEPT ![t] = "l90"]
    /\ UNCHANGED << last, origin, rv2coe_calls, target, got >>

\* line 90: return self._elements
ElementsReturn(t) == pc[t] = "l90" /\ Returned(t)

ThreadStep ==
    \E t \in Threads :
        \/ ElementsTest(t)
        \/ ElementsCached(t)
        \/ ElementsCompute(t)
        \/ ElementsStore(t)
        \/ ElementsReturn(t)

ConcNext == FromVectors \/ FromElements \/ ThreadStep

ConcSpec == Init /\ [][ConcNext]_vars

-----------------------------------------------------------------------------
(* Properties *)

populated(i) == truthy(heap[i]._elements)
SolverCalls(call) == Count(call.log, "_ast2body.kepler")
FromUnits == << "km", "", "rad", "rad", "rad", "rad" >>

\* C1: a call of propagate leaves the State it is called on as it was
\* (attractor, r, v, epoch and _elements), whether it returns or raises, and
\* the State it returns is a new instance, not the one it was called on.
C1_PropagateLeavesSelf ==
    [][last'.op = "propagate" =>
          /\ heap'[last'.self] = heap[last'.self]
          /\ last'.exc = NoExc => (last'.ref # last'.self /\ last'.ref = Len(heap) + 1)
          /\ last'.exc # NoExc => last'.ref = 0]_vars

\* a State whose cache is populated has been propagated, and the call returned
C1_Witness ==
    /\ last.op = "propagate"
    /\ last.exc = NoExc
    /\ populated(last.self)
    /\ heap[last.ref].r # heap[last.self].r

\* C2: the cache of an instance is written at most once and rv2coe is called
\* at most once for it; once populated the cache never changes; and every
\* elements read returns the cache, so every read returns what the first did.
C2_CacheWriteOnce ==
    /\ [](\A i \in 1..Len(heap) :
             /\ rv2coe_calls[i] <= 1
             /\ cache_writes[i] <= 1
             /\ populated(i) <=> cache_writes[i] = 1)
    /\ [](last.op = "elements" => last.value = heap[last.self]._elements)
    /\ [][\A i \in 1..Len(heap) :
             populated(i) => heap'[i]._elements = heap[i]._elements]_vars

\* a read served from the cache that an earlier read computed
C2_Witness ==
    /\ last.op = "elements"
    /\ last.log = << >>
    /\ rv2coe_calls[last.self] = 1
    /\ cache_writes[last.self] = 1

\* C3: a populated cache holds either the elements from_elements was given,
\* from which coe2rv derived this instance's r and v, or what rv2coe gives for
\* this instance's r and v; a State returned by propagate has an empty cache,
\* and a read on it returns the rv2coe elements of its own vectors.
C3_CacheDescribesOwnVectors ==
    /\ [](\A i \in 1..Len(heap) :
             /\ populated(i) =>
                  \/ /\ origin[i].how = "from_elements"
                     /\ heap[i]._elements = origin[i].elements
                     /\ << heap[i].r, heap[i].v >> =
                            coe2rv(to(heap[i].attractor.k, "km3 / s2"),
                                   origin[i].elements[1], origin[i].elements[2],
                                   origin[i].elements[3], origin[i].elements[4],
                                   origin[i].elements[5], origin[i].elements[6])
                  \/ heap[i]._elements = elements_compute(heap[i])
             /\ (populated(i) /\ origin[i].how = "propagate") =>
                  heap[i]._elements = elements_compute(heap[i]))
    /\ [][(last'.op = "propagate" /\ Len(heap') > Len(heap)) =>
             heap'[Len(heap')]._elements = None]_vars

\* a State propagated from one built by from_elements has been read, and its
\* elements are not those of its source
C3_Witness ==
    \E i \in 1..Len(heap) :
        /\ origin[i].how = "propagate"
        /\ origin[origin[i].parent].how = "from_elements"
        /\ populated(i)
        /\ last.op = "elements" /\ last.self = i
        /\ last.value # heap[origin[i].parent]._elements

\* C4: when the solver reports a status that is not ok (whitespace stripped),
\* propagate raises RuntimeError with the stripped status in its message,
\* returns nothing and constructs no State.
C4_SolverFailureRaises ==
    /\ []((last.op = "propagate" /\ last.status # None /\ strip(last.status) # ok) =>
             /\ last.exc = Exc("RuntimeError",
                               << "There was an error: " >> \o strip(last.status))
             /\ last.ref = 0
             /\ last.value = None
             /\ Count(last.log, "State") = 0)
    /\ [][(last'.op = "propagate" /\ last'.status # None /\ strip(last'.status) # ok) =>
             heap' = heap]_vars

\* the solver has reported "nc " and propagate has raised
C4_Witness ==
    /\ last.op = "propagate"
    /\ last.status = << "n", "c", " " >>
    /\ last.exc.type = "RuntimeError"
    /\ Len(heap) >= 1

\* C5: from_elements given other than six elements raises ValueError before
\* anything else runs: no call of check_units, to, coe2rv or the constructor,
\* and no State is constructed, whatever the units of the elements.
C5_ElementCountFirst ==
    /\ []((last.op = "from_elements" /\ Len(last.elements) # 6) =>
             /\ last.exc = Exc("ValueError", << "Incorrect number of parameters" >>)
             /\ last.log = << >>
             /\ last.ref = 0)
    /\ [][(last'.op = "from_elements" /\ Len(last'.elements) # 6) => heap' = heap]_vars

\* five elements whose units are wrong as well have been refused for their number
C5_Witness ==
    /\ last.op = "from_elements"
    /\ Len(last.elements) = 5
    /\ ~ check_units(last.elements, FromUnits)
    /\ last.exc.type = "ValueError"

\* C6: a State built by from_elements holds in its cache exactly the elements
\* it was given, unconverted; an elements read on it returns them and calls
\* rv2coe never.
C6_FromElementsCache ==
    /\ \A i \in 1..Len(heap) :
           origin[i].how = "from_elements" =>
               /\ heap[i]._elements = origin[i].elements
               /\ rv2coe_calls[i] = 0
    /\ (last.op = "elements" /\ origin[last.self].how = "from_elements") =>
           /\ last.value = origin[last.self].elements
           /\ Count(last.log, "rv2coe") = 0

\* the elements of a State built from elements in dam and rad have been read
C6_Witness ==
    /\ last.op = "elements"
    /\ origin[last.self].how = "from_elements"
    /\ last.value[1].unit = "dam"
    /\ last.value # elements_compute(heap[last.self])

\* C7: with concurrent first reads of the elements of one instance, rv2coe is
\* computed and the cache is written at most once for it, and all the readers
\* get the same value.
C7_ConcurrentReadsComputeOnce ==
    /\ \A i \in 1..Len(heap) : rv2coe_calls[i] <= 1 /\ cache_writes[i] <= 1
    /\ \A t1, t2 \in Threads :
           (target[t1] = target[t2] /\ got[t1] # None /\ got[t2] # None) =>
               got[t1] = got[t2]

\* the State an instance was propagated from, back to a State that was not
\* propagated, and the sum of the times of flight on the way, in seconds
RECURSIVE Root(_)
Root(i) == IF origin[i].how = "propagate" THEN Root(origin[i].parent) ELSE i
RECURSIVE TofSum(_)
TofSum(i) ==
    IF origin[i].how = "propagate"
    THEN TofSum(origin[i].parent) + to(origin[i].tof, "s").value
    ELSE 0

\* C8: a State returned by propagate has the attractor of its source and the
\* epoch of its source plus the time of flight; so at the end of a chain of
\* propagations the epoch is the first epoch plus the sum of the times of
\* flight, of either sign.
C8_EpochAdvances ==
    \A i \in 1..Len(heap) :
        origin[i].how = "propagate" =>
            /\ heap[i].attractor = heap[origin[i].parent].attractor
            /\ heap[i].epoch =
                   heap[origin[i].parent].epoch + to(origin[i].tof, "s").value
            /\ heap[i].epoch = heap[Root(i)].epoch + TofSum(i)

\* a chain of two propagations, one forward by a minute and one backward by
\* thirty seconds
C8_Witness ==
    \E i \in 1..Len(heap) :
        /\ origin[i].how = "propagate"
        /\ origin[origin[i].parent].how = "propagate"
        /\ origin[i].tof = Q(-30, "s")
        /\ origin[origin[i].parent].tof = Q(1, "min")
        /\ heap[i].epoch = heap[Root(i)].epoch + 30

LengthUnit(unit) ==
    CASE unit = "km3 / s2" -> "km"
      [] unit = "dam3 / s2" -> "dam"

\* C9: the gravitational parameter from_elements passes to coe2rv has the
\* length unit of the semi-major axis it passes with it.
C9_KUnitMatchesElements ==
    \A j \in 1..Len(last.log) :
        last.log[j].fn = "coe2rv" =>
            LengthUnit(last.log[j].args[1].unit) = last.log[j].args[2].unit

\* C10: a call of propagate calls kepler once, and kepler, whether it returns
\* or raises RuntimeError, calls the solver once.
C10_SolverCalledOnce ==
    last.op = "propagate" =>
        /\ Count(last.log, "kepler") = 1
        /\ last.exc.type \in { "", "RuntimeError" } => SolverCalls(last) = 1

\* propagate has returned a State after one call of the solver
C10_Witness ==
    /\ last.op = "propagate"
    /\ last.exc = NoExc
    /\ last.ref = Len(heap)
    /\ SolverCalls(last) = 1

=============================================================================
